---- MODULE Spec2Model ----
(***************************************************************************)
(* SimpleSparseMerkle: the sparse Merkle tree engine of                    *)
(* src/src/sparse_merkle_tree.rs over the in-memory store of               *)
(* src/src/kv_store.rs, the hasher of src/src/tree_hasher.rs and the proof *)
(* verifier of src/src/proof.rs.                                           *)
(*                                                                         *)
(* Byte strings (Bytes, Vec<u8>, &[u8]) are sequences of items.  An item   *)
(* is either one concrete byte [b |-> n] or one hash output                *)
(* [pre |-> preimage], which stands for the DigestLen bytes the hash       *)
(* function returns on that preimage.  Two hash outputs are equal exactly  *)
(* when their preimages are equal byte strings, and no hash output equals  *)
(* a string of concrete bytes such as the all-zero digest: the hash is     *)
(* collision-free and nothing else is assumed about it.                    *)
(***************************************************************************)
EXTENDS Integers, Sequences, FiniteSets, TLC

\* Width of a digest in bytes (the code's Sha256 gives 32).
DigestLen == 1
\* Number of tree levels: the code walks 0..256, i.e. 8 bits per digest byte.
Depth == 8 * DigestLen
\* Number of plain one-byte keys callers use.
NumKeys == 2
\* Number of one-byte values callers use.
NumValues == 2
\* Width in bits of the Account's balance and nonce (u64 in the code).
AccountBits == 3
\* Longest sequence of transfer/credit calls explored; it stays below
\* 2^AccountBits as no run of the program makes 2^64 calls.
MaxAccountCalls == 3
\* Longest sequence of update/remove calls explored; calls of any kind are
\* explored while the sequence is shorter than this.
MaxOps == 2

VARIABLES
    smt,    \* the SparseMerkleTree: [store, root]
    sha,    \* the leading bytes the hash function returns for each key path
    log,    \* history: the calls that returned Ok, in order
    failed, \* None, or Some of the update call that returned the store's Err
    pending, \* per caller: None, or Some of its update call that is under way
    account \* None, or Some of the Account: [balance, nonce]

vars == <<smt, sha, log, failed, pending, account>>

----------------------------------------------------------------------------
(* Byte strings *)

Byte(n) == [b |-> n]

IsByte(item) == "b" \in DOMAIN item

ItemLen(item) == IF IsByte(item) THEN 1 ELSE DigestLen

RECURSIVE ByteLen(_)
ByteLen(bs) == IF bs = <<>> THEN 0 ELSE ItemLen(Head(bs)) + ByteLen(Tail(bs))

\* Number of leading items of bs that make up at most n bytes.
RECURSIVE ItemsWithin(_, _)
ItemsWithin(bs, n) ==
    IF bs = <<>> \/ ItemLen(Head(bs)) > n THEN 0
    ELSE 1 + ItemsWithin(Tail(bs), n - ItemLen(Head(bs)))

\* slice::split_at(mid): <<bs[..mid], bs[mid..]>>, mid counted in bytes.
split_at(bs, mid) ==
    LET j == ItemsWithin(bs, mid)
    IN  <<SubSeq(bs, 1, j), SubSeq(bs, j + 1, Len(bs))>>

----------------------------------------------------------------------------
(* TreeHasher *)

\* H::digest(data): the hash function itself.
HashOf(data) == <<[pre |-> data]>>

zero_value == [i \in 1..DigestLen |-> Byte(0)]

digest(data) == HashOf(data)

\* digest_leaf with the value left out of the hashed bytes.
digest_leaf_without_value(path, value) == HashOf(<<Byte(0)>> \o path)

digest_leaf(path, value) == HashOf(<<Byte(0)>> \o path \o value)

\* digest_node with the leaf prefix 0x00.
digest_node_leaf_prefix(left, right) == HashOf(<<Byte(0)>> \o left \o right)

digest_node(left, right) == HashOf(<<Byte(1)>> \o left \o right)

----------------------------------------------------------------------------
(* Inputs *)

PlainKeys == {<<Byte(k)>> : k \in 1..NumKeys}

Values == {<<Byte(v)>> : v \in 1..NumValues}

\* A key whose bytes are the leaf preimage of (key 1, value 1): its path
\* digest(key) is the leaf digest under which update(key 1, value 1) stores
\* a record.
LeafAliasKey == <<Byte(0)>> \o digest(<<Byte(1)>>) \o <<Byte(1)>>

Keys == PlainKeys \cup {LeafAliasKey}

Paths == {digest(k) : k \in Keys}

\* Candidate byte values of a path; a path repeats one of them DigestLen
\* times (00000001, 10000000, 10000001, 11000000).
PathByteChoices == {1, 128, 129, 192}

PathChoices == {[i \in 1..DigestLen |-> c] : c \in PathByteChoices}

\* The hash functions considered: distinct paths have distinct bytes, the
\* path of LeafAliasKey is 11000000.. and the plain keys share out the rest.
HashChoices ==
    {f \in [Paths -> PathChoices] :
        /\ \A p, q \in Paths : p # q => f[p] # f[q]
        /\ f[digest(LeafAliasKey)] = [i \in 1..DigestLen |-> 192]}

\* The byte every path outside Paths repeats (01000000).
OtherPathByte == 64

\* bytes[i / 8] >> (7 - (i % 8)) & 1 with the shift taken from the other
\* end of the byte.
BitAt_lsb_first(bytes, i) ==
    (bytes[(i \div 8) + 1] \div (2 ^ (i % 8))) % 2

\* bytes[i / 8] >> (7 - (i % 8)) & 1, i counted from 0, on the byte values
\* of a key path.
BitAt(bytes, i) ==
    (bytes[(i \div 8) + 1] \div (2 ^ (7 - (i % 8)))) % 2

\* The byte values of a DigestLen-byte string: those of its concrete
\* bytes, or those the hash function returns.
PathBytes(path) ==
    IF \A j \in 1..Len(path) : IsByte(path[j])
    THEN [j \in 1..Len(path) |-> path[j].b]
    ELSE IF path \in DOMAIN sha THEN sha[path]
    ELSE [j \in 1..DigestLen |-> OtherPathByte]

\* path[i / 8] >> (7 - (i % 8)) & 1, i counted from 0
PathBit(path, i) == BitAt(PathBytes(path), i)

----------------------------------------------------------------------------
(* KVStore: SimpleKVStore is a HashMap from byte strings to byte strings *)

None == <<>>
Some(x) == <<x>>

store_new == [k \in {} |-> <<>>]

store_get(store, key) ==
    IF key \in DOMAIN store THEN Some(store[key]) ELSE None

\* set with map.entry(key).or_insert(value): a key that is present keeps
\* its value.
store_set_if_absent(store, key, value) ==
    [k \in (DOMAIN store) \cup {key} |->
        IF k \in DOMAIN store THEN store[k] ELSE value]

store_set(store, key, value) ==
    [k \in (DOMAIN store) \cup {key} |-> IF k = key THEN value ELSE store[k]]

store_remove(store, key) ==
    [k \in (DOMAIN store) \ {key} |-> store[k]]

----------------------------------------------------------------------------
(* SparseMerkleTree *)

smt_new == [store |-> store_new, root |-> zero_value]

\* SparseMerkleTree::new(store, hasher) over a store the caller hands in.
new(store) == [store |-> store, root |-> zero_value]

\* get without the early return on the empty root.
get_without_root_check(t, key) == store_get(t.store, digest(key))

get(t, key) ==
    IF t.root = zero_value THEN None
    ELSE store_get(t.store, digest(key))

\* The loop body of update with the two children on the wrong sides.
UpdateLevel_swapped(path, current, i) ==
    LET bit     == PathBit(path, i)
        sibling == zero_value
        left    == IF bit = 0 THEN sibling ELSE current
        right   == IF bit = 0 THEN current ELSE sibling
    IN  [key |-> digest_node(left, right), value |-> left \o right]

\* The loop body of update with current taken as its own sibling.
UpdateLevel_sibling_current(path, current, i) ==
    LET bit     == PathBit(path, i)
        sibling == current
        left    == IF bit = 0 THEN current ELSE sibling
        right   == IF bit = 0 THEN sibling ELSE current
    IN  [key |-> digest_node(left, right), value |-> left \o right]

\* The loop body of update at level i: the node written and the new current.
UpdateLevel(path, current, i) ==
    LET bit     == PathBit(path, i)
        sibling == zero_value
        left    == IF bit = 0 THEN current ELSE sibling
        right   == IF bit = 0 THEN sibling ELSE current
    IN  [key |-> digest_node(left, right), value |-> left \o right]

\* for i in (0..n).rev(): the writes of levels n-1, n-2, .., 0 in order.
RECURSIVE UpdateWalk(_, _, _)
UpdateWalk(path, current, n) ==
    IF n = 0 THEN <<>>
    ELSE LET w == UpdateLevel(path, current, n - 1)
         IN  <<w>> \o UpdateWalk(path, w.key, n - 1)

\* update hashing upwards from the path instead of from the leaf hash.
UpdateWrites_from_path(key, value) ==
    LET path      == digest(key)
        leaf_hash == digest_leaf(path, value)
    IN  <<[key |-> path, value |-> value],
          [key |-> leaf_hash, value |-> zero_value \o zero_value]>>
        \o UpdateWalk(path, path, Depth)

\* Every store.set of update(key, value), in program order.
UpdateWrites(key, value) ==
    LET path      == digest(key)
        leaf_hash == digest_leaf(path, value)
    IN  <<[key |-> path, value |-> value],
          [key |-> leaf_hash, value |-> zero_value \o zero_value]>>
        \o UpdateWalk(path, leaf_hash, Depth)

\* A store whose set extends the value a key already holds instead of
\* replacing it.
ApplyWrites_extending(store, ws) ==
    LET written == {ws[i].key : i \in 1..Len(ws)}
        last(k) == CHOOSE i \in 1..Len(ws) :
                       /\ ws[i].key = k
                       /\ \A j \in (i + 1)..Len(ws) : ws[j].key # k
    IN  [k \in (DOMAIN store) \cup written |->
            IF k \in written
            THEN (IF k \in DOMAIN store THEN store[k] ELSE <<>>) \o ws[last(k)].value
            ELSE store[k]]

\* The store after store.set(w.key, w.value) for every write w of ws, in
\* order: each written key holds the value of its last write.
ApplyWrites(store, ws) ==
    LET written == {ws[i].key : i \in 1..Len(ws)}
        last(k) == CHOOSE i \in 1..Len(ws) :
                       /\ ws[i].key = k
                       /\ \A j \in (i + 1)..Len(ws) : ws[j].key # k
    IN  [k \in (DOMAIN store) \cup written |->
            IF k \in written THEN ws[last(k)].value ELSE store[k]]

\* update without the final self.root = current.
update_root_not_assigned(t, key, value) ==
    LET ws == UpdateWrites(key, value)
    IN  [store |-> ApplyWrites(t.store, ws), root |-> t.root]

update(t, key, value) ==
    LET ws == UpdateWrites(key, value)
    IN  [store |-> ApplyWrites(t.store, ws), root |-> ws[Len(ws)].key]

\* update with self.root = current inside the loop: the root follows the
\* node written last.
update_failing_root_in_loop(t, key, value, n) ==
    LET ws == UpdateWrites(key, value)
    IN  [store |-> ApplyWrites(t.store, SubSeq(ws, 1, n - 1)),
         root  |-> IF n > 3 THEN ws[n - 1].key ELSE t.root]

\* update(key, value) over a store whose n-th set of the call returns Err:
\* the ? operator returns from update there, after the n - 1 sets before it
\* and before self.root = current.
update_failing(t, key, value, n) ==
    LET ws == UpdateWrites(key, value)
    IN  [store |-> ApplyWrites(t.store, SubSeq(ws, 1, n - 1)),
         root  |-> t.root]

remove(t, key) ==
    [store |-> store_remove(t.store, digest(key)), root |-> zero_value]

\* generate_proof: for i in i..Depth, stopping at the empty digest; the
\* side nodes pushed from level i on, in push order.
RECURSIVE ProofWalk(_, _, _, _)
ProofWalk(t, path, current, i) ==
    IF i = Depth \/ current = zero_value THEN <<>>
    ELSE LET got        == store_get(t.store, current)
             node_value == IF got = None THEN zero_value \o zero_value
                           ELSE got[1]
             parts      == split_at(node_value, ByteLen(node_value) \div 2)
             left       == parts[1]
             right      == parts[2]
         IN  IF PathBit(path, i) = 0
             THEN <<right>> \o ProofWalk(t, path, left, i + 1)
             ELSE <<left>> \o ProofWalk(t, path, right, i + 1)

\* The loop of generate_proof without its break on the empty digest.
RECURSIVE ProofWalk_no_break(_, _, _, _)
ProofWalk_no_break(t, path, current, i) ==
    IF i = Depth THEN <<>>
    ELSE LET got        == store_get(t.store, current)
             node_value == IF got = None THEN zero_value \o zero_value
                           ELSE got[1]
             parts      == split_at(node_value, ByteLen(node_value) \div 2)
             left       == parts[1]
             right      == parts[2]
         IN  IF PathBit(path, i) = 0
             THEN <<right>> \o ProofWalk_no_break(t, path, left, i + 1)
             ELSE <<left>> \o ProofWalk_no_break(t, path, right, i + 1)

\* The digest generate_proof holds in current at the top of each pass of
\* its loop, from level i on, the pass that breaks included.
RECURSIVE ProofCurrents(_, _, _, _)
ProofCurrents(t, path, current, i) ==
    IF i = Depth THEN <<>>
    ELSE IF current = zero_value THEN <<current>>
    ELSE LET got        == store_get(t.store, current)
             node_value == IF got = None THEN zero_value \o zero_value
                           ELSE got[1]
             parts      == split_at(node_value, ByteLen(node_value) \div 2)
             next       == IF PathBit(path, i) = 0 THEN parts[1] ELSE parts[2]
         IN  <<current>> \o ProofCurrents(t, path, next, i + 1)

\* generate_proof with side_nodes.insert(0, ..) for side_nodes.push(..).
generate_proof_deepest_first(t, key) ==
    LET pushed == ProofWalk(t, digest(key), t.root, 0)
    IN  [i \in 1..Len(pushed) |-> pushed[Len(pushed) + 1 - i]]

\* generate_proof walking all Depth levels, whatever current is.
generate_proof_no_break(t, key) == ProofWalk_no_break(t, digest(key), t.root, 0)

\* The side_nodes of the MerkleProof generate_proof(key) returns.
generate_proof(t, key) == ProofWalk(t, digest(key), t.root, 0)

\* MerkleProof::verify, side_nodes.iter().enumerate().rev(): entries
\* n-1, n-2, .., 0 (counted from 0) folded into current_hash.
RECURSIVE VerifyWalk(_, _, _, _)
VerifyWalk(side_nodes, path, current_hash, n) ==
    IF n = 0 THEN current_hash
    ELSE LET sibling == side_nodes[n]
             next    == IF PathBit(path, n - 1) = 0
                        THEN digest_node(current_hash, sibling)
                        ELSE digest_node(sibling, current_hash)
         IN  VerifyWalk(side_nodes, path, next, n - 1)

\* verify taking a proof without side nodes as a proof against the empty root.
verify_empty_proof(side_nodes, root, key, value) ==
    LET path      == digest(key)
        leaf_hash == digest_leaf(path, value)
    IN  IF side_nodes = <<>> THEN root = zero_value
        ELSE VerifyWalk(side_nodes, path, leaf_hash, Len(side_nodes)) = root

\* verify folding the empty digest in at every level, whatever the side
\* nodes are.
verify_side_nodes_unread(side_nodes, root, key, value) ==
    LET path      == digest(key)
        leaf_hash == digest_leaf(path, value)
        empties   == [i \in 1..Len(side_nodes) |-> zero_value]
    IN  VerifyWalk(empties, path, leaf_hash, Len(side_nodes)) = root

verify(side_nodes, root, key, value) ==
    LET path      == digest(key)
        leaf_hash == digest_leaf(path, value)
    IN  VerifyWalk(side_nodes, path, leaf_hash, Len(side_nodes)) = root

\* verify indexes path[i / 8] for the side node at index i (from 0); path
\* is a Vec<u8> of DigestLen bytes and indexing past its end panics.
verify_panics(side_nodes) ==
    \E i \in 0..(Len(side_nodes) - 1) : i \div 8 >= DigestLen

\* How a call of verify ends.
verify_outcome(side_nodes, root, key, value) ==
    IF verify_panics(side_nodes) THEN "panic"
    ELSE IF verify(side_nodes, root, key, value) THEN "true" ELSE "false"

----------------------------------------------------------------------------
(* State machine *)

\* The callers whose calls of update may be under way at the same time.
Callers == {1, 2}

Init ==
    /\ smt = smt_new
    /\ sha \in HashChoices
    /\ log = <<>>
    /\ failed = None
    /\ pending = [c \in Callers |-> None]
    /\ account = None

\* update(key, value) over a store whose every set returns Ok.
Update(key, value) ==
    /\ failed = None
    /\ Len(log) < MaxOps
    /\ smt' = update(smt, key, value)
    /\ log' = Append(log, [op |-> "update", key |-> key, value |-> value])
    /\ UNCHANGED <<sha, failed, pending, account>>

Remove(key) ==
    /\ failed = None
    /\ Len(log) < MaxOps
    /\ smt' = remove(smt, key)
    /\ log' = Append(log, [op |-> "remove", key |-> key, value |-> <<>>])
    /\ UNCHANGED <<sha, failed, pending, account>>

\* get(&self, key) with a caching store: a lookup that misses leaves an
\* empty entry behind.
Get_inserting_default(key) ==
    /\ failed = None
    /\ Len(log) < MaxOps
    /\ smt' = IF smt.root # zero_value /\ store_get(smt.store, digest(key)) = None
              THEN [smt EXCEPT !.store = store_set(@, digest(key), <<>>)]
              ELSE smt
    /\ UNCHANGED <<sha, log, failed, pending, account>>

\* get(&self, key): the call borrows the tree and the store shared; what it
\* returns is get(smt, key).
Get(key) ==
    /\ failed = None
    /\ Len(log) < MaxOps
    /\ UNCHANGED <<smt, sha, log, failed, pending, account>>

\* generate_proof(&self, key): returns generate_proof(smt, key).
GenerateProof(key) ==
    /\ failed = None
    /\ Len(log) < MaxOps
    /\ UNCHANGED <<smt, sha, log, failed, pending, account>>

\* MerkleProof::verify(&self, root, key, value, hasher) on the proof
\* generate_proof returned: it is handed neither the tree nor the store.
Verify(key, value) ==
    /\ failed = None
    /\ Len(log) < MaxOps
    /\ UNCHANGED <<smt, sha, log, failed, pending, account>>

Next ==
    \/ \E key \in Keys, value \in Values : Update(key, value)
    \/ \E key \in Keys : Remove(key)
    \/ \E key \in Keys : Get(key)
    \/ \E key \in Keys : GenerateProof(key)
    \/ \E key \in Keys, value \in Values : Verify(key, value)

Spec == Init /\ [][Next]_vars

\* The calls that change the tree, and generate_proof on what they leave.
NextProofs ==
    \/ \E key \in Keys, value \in Values : Update(key, value)
    \/ \E key \in Keys : Remove(key)
    \/ \E key \in Keys : GenerateProof(key)

SpecProofs == Init /\ [][NextProofs]_vars

\* update(key, value) returns the store's Err from its n-th set.  The run
\* is not followed further after a call that failed.
UpdateFails(key, value, n) ==
    /\ failed = None
    /\ Len(log) < MaxOps
    /\ smt' = update_failing(smt, key, value, n)
    /\ failed' = Some([key |-> key, value |-> value, at |-> n])
    /\ UNCHANGED <<sha, log, pending, account>>

\* The sets of an update at which the store is made to fail, counted in
\* program order: the flat entry, the leaf record, the first node, the
\* node below the root and the root's node.
FailPoints == {1, 2, 3, Depth + 1, Depth + 2}

\* The calls that write, over a store any of whose sets may fail.
NextStoreFails ==
    \/ \E key \in Keys, value \in Values : Update(key, value)
    \/ \E key \in Keys : Remove(key)
    \/ \E key \in Keys, value \in Values, n \in FailPoints :
           UpdateFails(key, value, n)

SpecStoreFails == Init /\ [][NextStoreFails]_vars

----------------------------------------------------------------------------
(* update taken one store.set at a time *)

\* A key whose bytes are the node preimage of the root's record: its path
\* digest(key) is the root.
RootAliasKeys(t) ==
    IF t.root # zero_value /\ t.root \in DOMAIN t.store
    THEN {<<Byte(1)>> \o t.store[t.root]}
    ELSE {}

\* Position of the root assignment among the steps of update: after the
\* Depth + 2 calls of store.set.
RootStep == Depth + 3

\* update(key, value) by caller c up to and including its first store.set,
\* the flat entry.  current is the call's local variable; root0 and get0
\* remember the root and get(key) as they were when the call began.
StartUpdate(c, key, value) ==
    /\ failed = None
    /\ pending[c] = None
    /\ smt' = [smt EXCEPT !.store = store_set(@, digest(key), value)]
    /\ pending' = [pending EXCEPT ![c] =
                       Some([key |-> key, value |-> value, pc |-> 2,
                             current |-> digest_leaf(digest(key), value),
                             root0 |-> smt.root, get0 |-> get(smt, key)])]
    /\ UNCHANGED <<sha, log, failed, account>>

\* The next store.set of caller c's update: the leaf record at step 2,
\* then the node of level Depth - 1 at step 3 down to level 0.
StepSet(c) ==
    /\ pending[c] # None
    /\ pending[c][1].pc < RootStep
    /\ LET call == pending[c][1]
           w    == IF call.pc = 2
                   THEN [key |-> call.current, value |-> zero_value \o zero_value]
                   ELSE UpdateLevel(digest(call.key), call.current, Depth + 2 - call.pc)
       IN  /\ smt' = [smt EXCEPT !.store = store_set(@, w.key, w.value)]
           /\ pending' = [pending EXCEPT ![c] =
                              Some([call EXCEPT !.pc = @ + 1, !.current = w.key])]
    /\ UNCHANGED <<sha, log, failed, account>>

\* The end of caller c's update without self.root = current.
AssignRoot_not_assigning(c) ==
    /\ pending[c] # None
    /\ pending[c][1].pc = RootStep
    /\ LET call == pending[c][1]
       IN  log' = Append(log, [op |-> "update", key |-> call.key, value |-> call.value])
    /\ pending' = [pending EXCEPT ![c] = None]
    /\ UNCHANGED <<smt, sha, failed, account>>

\* self.root = current and Ok(()) of caller c's update.
AssignRoot(c) ==
    /\ pending[c] # None
    /\ pending[c][1].pc = RootStep
    /\ LET call == pending[c][1]
       IN  /\ smt' = [smt EXCEPT !.root = call.current]
           /\ log' = Append(log, [op |-> "update", key |-> call.key, value |-> call.value])
    /\ pending' = [pending EXCEPT ![c] = None]
    /\ UNCHANGED <<sha, failed, account>>

\* One caller: the calls of update follow one another and the state
\* between any two steps is there to be read.
NextSteps ==
    \/ \E key \in Keys \cup RootAliasKeys(smt), value \in Values :
           Len(log) < MaxOps /\ StartUpdate(1, key, value)
    \/ StepSet(1)
    \/ AssignRoot(1)

SpecSteps == Init /\ [][NextSteps]_vars

\* Number of update calls the two callers make between them.
RaceCalls == Cardinality(Callers)

\* The calls begun so far.
CallsBegun == Len(log) + Cardinality({c \in Callers : pending[c] # None})

\* Two callers on one tree with nothing to keep their steps apart; the
\* caller that begins first is called 1.
NextRace ==
    \/ \E c \in Callers, key \in PlainKeys, value \in Values :
           /\ CallsBegun < RaceCalls
           /\ c = 1 \/ CallsBegun > 0
           /\ StartUpdate(c, key, value)
    \/ \E c \in Callers : StepSet(c)
    \/ \E c \in Callers : AssignRoot(c)

SpecRace == Init /\ [][NextRace]_vars

----------------------------------------------------------------------------
(* Account *)

\* u64::MAX
U64Max == 2 ^ AccountBits - 1

\* Amounts and initial balances callers use.
Amounts == {0, 1, 2, U64Max - 1, U64Max}

\* Account::new(address, initial_balance); the address is never read or
\* written afterwards and is left out.
account_new(initial_balance) == [balance |-> initial_balance, nonce |-> 0]

\* transfer without the balance check: self.balance -= amount wraps.
transfer_unchecked(acct, amount) ==
    [account |-> [balance |-> (acct.balance - amount) % (U64Max + 1),
                  nonce   |-> (acct.nonce + 1) % (U64Max + 1)],
     result  |-> "Ok"]

\* transfer(&mut self, amount): the account afterwards and the result.
transfer(acct, amount) ==
    IF acct.balance >= amount
    THEN [account |-> [balance |-> acct.balance - amount,
                       nonce   |-> (acct.nonce + 1) % (U64Max + 1)],
          result  |-> "Ok"]
    ELSE [account |-> acct, result |-> "Err"]

\* credit(&mut self, amount): saturating_add.
credit(acct, amount) ==
    [acct EXCEPT !.balance = IF @ + amount > U64Max THEN U64Max ELSE @ + amount]

AccountNew(initial_balance) ==
    /\ account = None
    /\ account' = Some(account_new(initial_balance))
    /\ log' = Append(log, [op |-> "new", key |-> initial_balance, value |-> "Ok"])
    /\ UNCHANGED <<smt, sha, failed, pending>>

Transfer(amount) ==
    /\ account # None
    /\ Len(log) <= MaxAccountCalls
    /\ account' = Some(transfer(account[1], amount).account)
    /\ log' = Append(log, [op |-> "transfer", key |-> amount,
                             value |-> transfer(account[1], amount).result])
    /\ UNCHANGED <<smt, sha, failed, pending>>

Credit(amount) ==
    /\ account # None
    /\ Len(log) <= MaxAccountCalls
    /\ account' = Some(credit(account[1], amount))
    /\ log' = Append(log, [op |-> "credit", key |-> amount, value |-> "Ok"])
    /\ UNCHANGED <<smt, sha, failed, pending>>

NextAccount ==
    \/ \E initial_balance \in Amounts : AccountNew(initial_balance)
    \/ \E amount \in Amounts : Transfer(amount)
    \/ \E amount \in Amounts : Credit(amount)

SpecAccount == Init /\ [][NextAccount]_vars

----------------------------------------------------------------------------
(* SimpleKVStore called on its own *)

\* The keys the store is called with.
StoreKeys == Paths

\* store.set(key, value): returns Ok.
StoreSet(key, value) ==
    /\ Len(log) < MaxOps
    /\ smt' = [smt EXCEPT !.store = store_set(@, key, value)]
    /\ log' = Append(log, [op |-> "set", key |-> key, value |-> value])
    /\ UNCHANGED <<sha, failed, pending, account>>

\* store.remove(key): returns Ok whether or not the key is present.
StoreRemove(key) ==
    /\ Len(log) < MaxOps
    /\ smt' = [smt EXCEPT !.store = store_remove(@, key)]
    /\ log' = Append(log, [op |-> "remove", key |-> key, value |-> <<>>])
    /\ UNCHANGED <<sha, failed, pending, account>>

NextStore ==
    \/ \E key \in StoreKeys, value \in Values : StoreSet(key, value)
    \/ \E key \in StoreKeys : StoreRemove(key)

SpecStore == Init /\ [][NextStore]_vars

----------------------------------------------------------------------------
(* TreeHasher called on its own *)

\* Byte strings handed to digest_leaf and digest_node: the empty string,
\* the zero value and paths.
HasherInputs ==
    {<<>>, zero_value} \cup {digest(key) : key \in PlainKeys}

\* Number of hasher calls a run makes.
HasherCalls == 2

\* digest_leaf(path, value); the log keeps the inputs and the digest.
DigestLeaf(path, value) ==
    /\ Len(log) < HasherCalls
    /\ log' = Append(log, [op |-> "digest_leaf", key |-> <<path, value>>,
                             value |-> digest_leaf(path, value)])
    /\ UNCHANGED <<smt, sha, failed, pending, account>>

\* digest_node(left, right); the log keeps the inputs and the digest.
DigestNode(left, right) ==
    /\ Len(log) < HasherCalls
    /\ log' = Append(log, [op |-> "digest_node", key |-> <<left, right>>,
                             value |-> digest_node(left, right)])
    /\ UNCHANGED <<smt, sha, failed, pending, account>>

NextHasher ==
    \/ \E path \in HasherInputs, value \in HasherInputs : DigestLeaf(path, value)
    \/ \E left \in HasherInputs, right \in HasherInputs : DigestNode(left, right)

SpecHasher == Init /\ [][NextHasher]_vars

----------------------------------------------------------------------------
(* The tree of src/src/tree_sparse_merkle.rs: keys and values are Hash, *)
(* [u8; 32], and a key is its own path and its own store key            *)

\* TreeHasher::zero_hash(): [0u8; 32]
zero_hash == zero_value

\* The Hash keys callers use: one byte value repeated.
HashKeys == {[j \in 1..DigestLen |-> Byte(k)] : k \in 1..NumKeys}

\* The Hash values callers use.
HashValues == {[j \in 1..DigestLen |-> Byte(v)] : v \in 1..NumValues}

\* Every store.set of tree_sparse_merkle's update(key, value), in program
\* order: the value under the key itself, then one node per level.  Its
\* digest_leaf and digest_node hash the same bytes as TreeHasher's.
tree_sparse_merkle_UpdateWrites(key, value) ==
    <<[key |-> key, value |-> value]>>
    \o UpdateWalk(key, digest_leaf(key, value), Depth)

tree_sparse_merkle_update(t, key, value) ==
    LET ws == tree_sparse_merkle_UpdateWrites(key, value)
    IN  [store |-> ApplyWrites(t.store, ws), root |-> ws[Len(ws)].key]

\* get: the stored bytes, if they convert to a Hash (try_into().ok()).
tree_sparse_merkle_get(t, key) ==
    IF t.root = zero_hash THEN None
    ELSE IF key \in DOMAIN t.store /\ ByteLen(t.store[key]) = DigestLen
         THEN Some(t.store[key])
         ELSE None

\* A Hash key that is the digest of a node: the root the tree has after
\* update of the first key with the first value.
NodeDigestKey ==
    LET key   == [j \in 1..DigestLen |-> Byte(1)]
        value == [j \in 1..DigestLen |-> Byte(1)]
    IN  tree_sparse_merkle_update(smt_new, key, value).root

HashKeyInputs == HashKeys \cup {NodeDigestKey}

\* update(key, value) of tree_sparse_merkle over InMemoryKVStore, whose set
\* always returns Ok.
UpdateHashKey(key, value) ==
    /\ Len(log) < MaxOps
    /\ smt' = tree_sparse_merkle_update(smt, key, value)
    /\ log' = Append(log, [op |-> "update", key |-> key, value |-> value])
    /\ UNCHANGED <<sha, failed, pending, account>>

\* get(key) of tree_sparse_merkle: returns tree_sparse_merkle_get(smt, key).
GetHashKey(key) ==
    /\ Len(log) < MaxOps
    /\ UNCHANGED <<smt, sha, log, failed, pending, account>>

NextHashKeys ==
    \/ \E key \in HashKeyInputs, value \in HashValues : UpdateHashKey(key, value)
    \/ \E key \in HashKeyInputs : GetHashKey(key)

SpecHashKeys == Init /\ [][NextHashKeys]_vars

----------------------------------------------------------------------------
(* The bit of a key path that controls a tree level *)

\* The byte values of the paths whose bits are read on their own: two
\* bytes each (00000001 11000000 and 11000000 00000001).
BitPaths == {<<1, 192>>, <<192, 1>>}

\* No bit has been read on its own so far.
NoBitRead == \A n \in 1..Len(log) : log[n].op # "bit"

\* let bit = (path[i / 8] >> (7 - (i % 8))) & 1 on the path bytes; the log
\* keeps the path, the position and the bit.
Bit(bytes, i) ==
    /\ NoBitRead
    /\ Len(log) < MaxOps
    /\ log' = Append(log, [op |-> "bit", key |-> <<bytes, i>>,
                             value |-> BitAt(bytes, i)])
    /\ UNCHANGED <<smt, sha, failed, pending, account>>

\* Updates of the tree, and the bit of one position of a path read after
\* them.
NextBits ==
    \/ \E key \in Keys, value \in Values : NoBitRead /\ Update(key, value)
    \/ \E bytes \in BitPaths : \E i \in 0..(8 * Len(bytes) - 1) : Bit(bytes, i)

SpecBits == Init /\ [][NextBits]_vars

----------------------------------------------------------------------------
(* MerkleProof::verify called on its own *)

\* A digest that is neither empty nor on any path: the hash of no bytes.
StrayDigest == HashOf(<<>>)

\* The proofs handed to verify first, for a key and a value: the proof
\* generate_proof returns after update(key, value) on a new tree, and that
\* proof with a stray digest as its first or as its last side node.
FirstProofs(key, value) ==
    LET side_nodes == generate_proof(update(smt_new, key, value), key)
    IN  {side_nodes,
         [side_nodes EXCEPT ![1] = StrayDigest],
         [side_nodes EXCEPT ![Len(side_nodes)] = StrayDigest]}

\* The roots handed to verify with such a proof: the root after
\* update(key, value) on a new tree, and the digest of the node built from
\* the leaf and the side nodes of the proof.
FirstRoots(side_nodes, key, value) ==
    {update(smt_new, key, value).root,
     VerifyWalk(side_nodes, digest(key), digest_leaf(digest(key), value),
                Len(side_nodes))}

\* Digests put in the place of a side node.
OtherDigests(root, key, value) ==
    {zero_value, StrayDigest, digest_leaf(digest(key), value), root}

\* side_nodes with the entry at index i replaced by d.
Replaced(side_nodes, i, d) == [side_nodes EXCEPT ![i] = d]

\* side_nodes without its last k entries, and without its first k.
DroppedAtEnd(side_nodes, k) == SubSeq(side_nodes, 1, Len(side_nodes) - k)

DroppedAtStart(side_nodes, k) == SubSeq(side_nodes, k + 1, Len(side_nodes))

\* The proofs made from side_nodes by replacing one side node by a
\* different digest or by dropping side nodes from one end.
Tampered(side_nodes, root, key, value) ==
    {Replaced(side_nodes, i, d) :
        i \in 1..Len(side_nodes), d \in OtherDigests(root, key, value)}
    \cup {DroppedAtEnd(side_nodes, k) : k \in 1..Len(side_nodes)}
    \cup {DroppedAtStart(side_nodes, k) : k \in 1..Len(side_nodes)}

\* proof.verify(root, key, value, hasher) for the proof with these side
\* nodes; the log keeps the arguments and what verify returned.
VerifyProof(side_nodes, root, key, value) ==
    /\ log' = Append(log, [op |-> "verify",
                             key |-> <<side_nodes, root, key, value>>,
                             value |-> verify(side_nodes, root, key, value)])
    /\ UNCHANGED <<smt, sha, failed, pending, account>>

\* verify is called on a proof, and then on a proof made from it, with
\* the same root, key and value.
NextVerify ==
    \/ /\ log = <<>>
       /\ \E key \in PlainKeys, value \in Values :
              \E side_nodes \in FirstProofs(key, value) :
                  \E root \in FirstRoots(side_nodes, key, value) :
                      VerifyProof(side_nodes, root, key, value)
    \/ /\ Len(log) = 1
       /\ LET first == log[1].key
          IN  \E side_nodes \in Tampered(first[1], first[2], first[3], first[4])
                                   \ {first[1]} :
                  VerifyProof(side_nodes, first[2], first[3], first[4])

SpecVerify == Init /\ [][NextVerify]_vars

----------------------------------------------------------------------------
(* The history of calls *)

OnlyUpdates(l) == \A i \in 1..Len(l) : l[i].op = "update"

UpdatesOf(key) == {i \in 1..Len(log) : log[i].op = "update" /\ log[i].key = key}

CallsOn(key) == {i \in 1..Len(log) : log[i].key = key}

Last(S) == CHOOSE i \in S : \A j \in S : j <= i

\* key was the argument of some update
Written(key) == UpdatesOf(key) # {}

\* the value of key's latest update
LatestValue(key) == log[Last(UpdatesOf(key))].value

\* key's latest call is an update: none of its updates was followed by remove
Live(key) == CallsOn(key) # {} /\ log[Last(CallsOn(key))].op = "update"

\* key's latest call is a remove
Removed(key) == CallsOn(key) # {} /\ log[Last(CallsOn(key))].op = "remove"

LastCall == log[Len(log)]

----------------------------------------------------------------------------
(* Claims *)

\* C1: after any sequence of successful updates, the proof generated for
\* EVERY key written so far verifies with the value of that key's latest
\* update against the current root.
C1_ProofSoundAllKeys ==
    OnlyUpdates(log) =>
        \A key \in Keys :
            Written(key) =>
                verify(generate_proof(smt, key), smt.root, key, LatestValue(key))

\* C2: get(K) is Some(V) exactly when K's most recent update(K, V) was not
\* followed by remove(K), and None otherwise; a remove of another key does
\* not change it.  Stated for the plain keys, whose paths no other call
\* writes to, so that only update(K, _) and remove(K) could change get(K).
C2_GetIffLive ==
    \A key \in PlainKeys :
        get(smt, key) = IF Live(key) THEN Some(LatestValue(key)) ELSE None

\* C3: after any sequence of successful updates and no remove, get(K) is
\* Some of the value of K's latest update, for every key written so far.
C3_GetAfterUpdates ==
    OnlyUpdates(log) =>
        \A key \in Keys :
            Written(key) => get(smt, key) = Some(LatestValue(key))

\* The tree a fresh SparseMerkleTree reaches by the calls of l, in order.
RECURSIVE Replay(_, _)
Replay(t, l) ==
    IF l = <<>> THEN t
    ELSE Replay(IF Head(l).op = "update"
                THEN update(t, Head(l).key, Head(l).value)
                ELSE remove(t, Head(l).key),
                Tail(l))

\* The calls of the history, reordered by the permutation p of its indices.
Reordered(p) == [i \in 1..Len(log) |-> log[p[i]]]

DistinctKeys(l) == \A i, j \in 1..Len(l) : i # j => l[i].key # l[j].key

\* C4: two trees built from the same set of update calls have the same
\* root: for a given final key/value set the root does not depend on the
\* order of insertion.
C4_RootOrderIndependent ==
    (OnlyUpdates(log) /\ DistinctKeys(log)) =>
        \A p \in Permutations(1..Len(log)) :
            Replay(smt_new, Reordered(p)).root = smt.root

UpdateCalls ==
    {[op |-> "update", key |-> k, value |-> v] : k \in Keys, v \in Values}

UpdateSeqs == UNION {[1..n -> UpdateCalls] : n \in 0..MaxOps}

\* C5: the root binds the whole mapping: a tree reached by any sequence of
\* updates that has the same root as this one answers every get the same.
C5_RootBindsMapping ==
    OnlyUpdates(log) =>
        \A l \in UpdateSeqs :
            LET other == Replay(smt_new, l)
            IN  other.root = smt.root =>
                    \A key \in Keys : get(other, key) = get(smt, key)

\* C6: for a key K last updated with V, the proof generated for K does not
\* verify with any other value V' against the current root.
C6_WrongValueRejected ==
    \A key \in Keys :
        Written(key) =>
            LET proof == generate_proof(smt, key)
            IN  \A v \in Values \ {LatestValue(key)} :
                    ~verify(proof, smt.root, key, v)

\* C6 witness: K was updated twice with different values, its full-length
\* proof verifies with the latest one, and another value is there to reject.
C6_Witness ==
    \E key \in Keys :
        /\ Cardinality(UpdatesOf(key)) >= 2
        /\ Len(generate_proof(smt, key)) = Depth
        /\ verify(generate_proof(smt, key), smt.root, key, LatestValue(key))
        /\ \E i \in UpdatesOf(key) : log[i].value # LatestValue(key)

\* C7: for a key that was never written, on an empty tree or on a tree that
\* holds other keys, the proof generated for it verifies with no value.
C7_AbsentKeyRejected ==
    \A key \in Keys :
        ~Written(key) =>
            LET proof == generate_proof(smt, key)
            IN  \A v \in Values : ~verify(proof, smt.root, key, v)

\* C7 witness: the tree holds another key, and the proof generated for the
\* never-written key is not empty.
C7_Witness ==
    \E key \in Keys :
        /\ ~Written(key)
        /\ smt.root # zero_value
        /\ \E other \in Keys : Live(other)
        /\ generate_proof(smt, key) # <<>>

\* C8: after any sequence of updates ending with update(K, V), the proof
\* generated for K verifies with V against the current root; every prefix
\* of a run is a reachable state, so this covers each repeated update.
C8_LastUpdateProves ==
    (log # <<>> /\ OnlyUpdates(log)) =>
        verify(generate_proof(smt, LastCall.key), smt.root,
               LastCall.key, LastCall.value)

\* C8 witness: a second update gives a new value to the key updated before,
\* and the proof generated for it has a side node for every level.
C8_Witness ==
    /\ Len(log) >= 2
    /\ OnlyUpdates(log)
    /\ \E i \in 1..(Len(log) - 1) :
           log[i].key = LastCall.key /\ log[i].value # LastCall.value
    /\ Len(generate_proof(smt, LastCall.key)) = Depth

LiveKeys == {key \in Keys : Live(key)}

\* C9: remove(K) empties the tree only when K was the last key present:
\* right after a remove that leaves other keys in the tree, the root is not
\* the empty digest.
C9_RemoveKeepsOtherKeys ==
    (log # <<>> /\ LastCall.op = "remove" /\ LiveKeys # {}) =>
        smt.root # zero_value

\* C10: once remove(K) succeeded, get(K) is None, and stays None through
\* later updates and removes of other keys, until K itself is updated.
C10_RemovedKeyStaysNone ==
    \A key \in Keys : Removed(key) => get(smt, key) = None

----------------------------------------------------------------------------
\* C11: a freshly constructed tree has the empty digest as its root and
\* get returns None for every key: the tree the run starts with, and a tree
\* newly constructed over the store as it is in any state.
C11_FreshTreeEmpty ==
    /\ log = <<>> /\ failed = None => smt = smt_new
    /\ smt_new.root = zero_value
    /\ \A key \in Keys : get(smt_new, key) = None
    /\ new(smt.store).root = zero_value
    /\ \A key \in Keys : get(new(smt.store), key) = None

\* A tree is constructed over a store that holds the value of some key.
C11_Witness ==
    \E key \in Keys : store_get(new(smt.store).store, digest(key)) # None

----------------------------------------------------------------------------
\* C12: update(K, V) called again right after update(K, V) changes nothing
\* a caller can see: the root and the result of get for every key are what
\* they were after the first of the two calls.
C12_RepeatedUpdateIdempotent ==
    [][(/\ log # <<>>
        /\ LastCall.op = "update"
        /\ log' = Append(log, LastCall))
       => (/\ smt'.root = smt.root
           /\ \A key \in Keys : get(smt', key) = get(smt, key))]_vars

\* The same update has been made twice in a row.
C12_Witness ==
    /\ Len(log) >= 2
    /\ LastCall.op = "update"
    /\ log[Len(log) - 1] = LastCall
    /\ get(smt, LastCall.key) = Some(LastCall.value)

----------------------------------------------------------------------------
\* The step is a call of update that returned Ok.
UpdateReturnedOk ==
    /\ log' # log
    /\ log'[Len(log')].op = "update"

----------------------------------------------------------------------------
\* C14: only update takes the tree out of the empty state.  No call of get,
\* generate_proof, verify or remove turns an empty root into a non-empty
\* one, and after every update that returned Ok the root is not the empty
\* digest.
C14_OnlyUpdateLeavesEmpty ==
    [][/\ (smt.root = zero_value /\ smt'.root # zero_value) => UpdateReturnedOk
       /\ UpdateReturnedOk => smt'.root # zero_value]_vars

\* remove was called on the empty tree, then update.
C14_Witness ==
    /\ Len(log) = 2
    /\ log[1].op = "remove"
    /\ log[2].op = "update"
    /\ smt.root # zero_value

----------------------------------------------------------------------------
\* C15: when a store set fails during update(K, V), update returns the
\* store's error and the root is what it was before the call; a step of
\* update that assigns a root is one that returned Ok, after which the store
\* holds the flat entry of K and the record of the new root.
C15_FailedUpdateKeepsRoot ==
    [][/\ failed' # failed => (failed' # None /\ smt'.root = smt.root /\ log' = log)
       /\ (smt'.root # smt.root /\ smt'.root # zero_value)
             => /\ UpdateReturnedOk
                /\ failed' = None
                /\ get(smt', log'[Len(log')].key) = Some(log'[Len(log')].value)
                /\ store_get(smt'.store, smt'.root) # None]_vars

\* The last set of an update failed on a tree whose root the call would
\* have replaced.
C15_Witness ==
    /\ failed # None
    /\ failed[1].at = Depth + 2
    /\ smt.root # zero_value
    /\ smt.root # update(smt, failed[1].key, failed[1].value).root

----------------------------------------------------------------------------
\* C16: when a store set fails during update(K, V) on a non-empty tree,
\* the root and the result of get for every key, K included, are what they
\* were before the call.
C16_FailedUpdateUnobservable ==
    [][(failed' # failed /\ smt.root # zero_value)
       => (/\ smt'.root = smt.root
           /\ \A key \in Keys : get(smt', key) = get(smt, key))]_vars

----------------------------------------------------------------------------
\* Proofs handed to verify: those generate_proof returns, and each of them
\* with one more side node.
ProofInputs ==
    {generate_proof(smt, key) : key \in Keys}
    \cup {generate_proof(smt, key) \o <<zero_value>> : key \in Keys}

\* C17: verify returns true or false, and never fails, for every key, every
\* value, every root and every proof, whatever its number of side nodes.
C17_VerifyNeverFails ==
    \A key \in Keys, value \in Values, root \in {smt.root, zero_value} :
        \A side_nodes \in ProofInputs :
            verify_outcome(side_nodes, root, key, value) \in {"true", "false"}

----------------------------------------------------------------------------
\* Proofs of fewer than Depth side nodes: the leading side nodes of the
\* proofs generate_proof returns.
ShortProofs ==
    UNION {LET side_nodes == generate_proof(smt, key)
           IN  {SubSeq(side_nodes, 1, n) :
                   n \in {m \in 0..(Depth - 1) : m <= Len(side_nodes)}} :
           key \in Keys}

\* side_nodes extended to Depth entries with the empty digest at the
\* positions of the levels it does not record.
PaddedProof(side_nodes) ==
    side_nodes \o [i \in 1..(Depth - Len(side_nodes)) |-> zero_value]

\* C18: verifying a proof of fewer than Depth side nodes gives the outcome
\* of verifying that proof padded to Depth side nodes with empty digests.
C18_ShortProofAsPadded ==
    \A key \in Keys, value \in Values, side_nodes \in ShortProofs :
        verify(side_nodes, smt.root, key, value)
            = verify(PaddedProof(side_nodes), smt.root, key, value)

----------------------------------------------------------------------------
\* The digest of the node at depth d (the root at 0, the leaf at Depth) on
\* the path update(key, value) writes.
NodeOnPath(key, value, d) == UpdateWrites(key, value)[2 + Depth - d].key

\* The first level at which two paths part, Depth when they never do.
FirstDiff(p, q) ==
    LET diff == {i \in 0..(Depth - 1) : PathBit(p, i) # PathBit(q, i)}
    IN  IF diff = {} THEN Depth ELSE CHOOSE i \in diff : \A j \in diff : i <= j

\* After update(last.key, last.value) the sibling, at level j, of the path
\* of key: above the level where the two paths part the other child is
\* empty, there it is the node on the updated path.
SiblingAtLevel(key, last, j) ==
    IF j = FirstDiff(digest(key), digest(last.key))
    THEN NodeOnPath(last.key, last.value, j + 1)
    ELSE zero_value

\* The number of levels generate_proof records for key after that update.
LevelsRecorded(key, last) ==
    LET d == FirstDiff(digest(key), digest(last.key))
    IN  IF d = Depth THEN Depth ELSE d + 1

\* C19 as stated: the side nodes generate_proof returns are ordered from
\* the deepest level at the first index up to the root-adjacent level at
\* the last index.
C19_DeepestLevelFirst ==
    (log # <<>> /\ LastCall.op = "update")
    => \A key \in Keys :
          LET side_nodes == generate_proof(smt, key)
              n          == Len(side_nodes)
          IN  /\ n = LevelsRecorded(key, LastCall)
              /\ \A j \in 0..(n - 1) :
                    side_nodes[j + 1] = SiblingAtLevel(key, LastCall, n - 1 - j)

\* C19, amended: the side nodes generate_proof returns are ordered from
\* the root-adjacent level at the first index down to the deepest level
\* recorded at the last index.
C19_RootAdjacentLevelFirst ==
    (log # <<>> /\ LastCall.op = "update")
    => \A key \in Keys :
          LET side_nodes == generate_proof(smt, key)
              n          == Len(side_nodes)
          IN  /\ n = LevelsRecorded(key, LastCall)
              /\ \A j \in 0..(n - 1) :
                    side_nodes[j + 1] = SiblingAtLevel(key, LastCall, j)

\* Some proof records more than one level and a sibling that is not empty.
C19_Witness ==
    /\ log # <<>>
    /\ LastCall.op = "update"
    /\ \E key \in Keys :
          LET side_nodes == generate_proof(smt, key)
          IN  /\ Len(side_nodes) >= 2
              /\ side_nodes[1] = zero_value
              /\ side_nodes[Len(side_nodes)] # zero_value

----------------------------------------------------------------------------
\* C20: get, generate_proof and verify are read-only: a step that is not a
\* call of update or remove leaves the root and every store entry as they
\* were.  verify is handed the root, the key, the value and the side nodes
\* and nothing of the tree.
C20_ReadsChangeNothing ==
    [][(log' = log /\ failed' = failed) => smt' = smt]_vars

\* There is something to read: a key with a value and a proof that verifies.
C20_Witness ==
    /\ smt.root # zero_value
    /\ \E key \in Keys, value \in Values :
          /\ get(smt, key) = Some(value)
          /\ generate_proof(smt, key) # <<>>
          /\ verify(generate_proof(smt, key), smt.root, key, value)

----------------------------------------------------------------------------
\* The byte string a digest was computed from.
PreimageOf(d) == d[1].pre

\* C21: digest_leaf and digest_node never hash the same byte string: the
\* bytes digest_leaf hashes begin with 0x00 and are followed by its two
\* inputs, the bytes digest_node hashes begin with 0x01 and are followed
\* by its two inputs, so for all inputs the two differ, and so do the
\* digests.
C21_LeafAndNodeDomainsApart ==
    \A i, j \in 1..Len(log) :
        (log[i].op = "digest_leaf" /\ log[j].op = "digest_node")
        => /\ PreimageOf(log[i].value) = <<Byte(0)>> \o log[i].key[1] \o log[i].key[2]
           /\ PreimageOf(log[j].value) = <<Byte(1)>> \o log[j].key[1] \o log[j].key[2]
           /\ PreimageOf(log[i].value)[1] # PreimageOf(log[j].value)[1]
           /\ log[i].value # log[j].value

\* Both functions have been called on the same two inputs.
C21_Witness ==
    \E i, j \in 1..Len(log) :
        /\ log[i].op = "digest_leaf"
        /\ log[j].op = "digest_node"
        /\ log[i].key = log[j].key
        /\ log[i].key[1] # <<>>

----------------------------------------------------------------------------
\* The store keys whose most recent call is a set.
SetKeys == {key \in StoreKeys : CallsOn(key) # {} /\ log[Last(CallsOn(key))].op = "set"}

\* C22: the store is last-write-wins per key: after any sequence of set
\* and remove calls, get(k) returns the value of the most recent set(k)
\* when no remove(k) followed it and None otherwise, and the store holds
\* nothing else, so a remove of an absent key changed nothing.
C22_StoreLastWriteWins ==
    /\ \A key \in StoreKeys :
          store_get(smt.store, key)
              = IF key \in SetKeys THEN Some(log[Last(CallsOn(key))].value) ELSE None
    /\ DOMAIN smt.store = SetKeys

\* A key was set twice with different values, or set while the remove of
\* an absent key followed.
C22_Witness ==
    /\ Len(log) = 2
    /\ log[1].op = "set"
    /\ \/ log[2].op = "set" /\ log[2].key = log[1].key /\ log[2].value # log[1].value
       \/ log[2].op = "remove" /\ log[2].key # log[1].key
    /\ store_get(smt.store, log[1].key) # None

----------------------------------------------------------------------------
\* The calls of transfer that returned Ok.
TransfersOk == {i \in 1..Len(log) : log[i].op = "transfer" /\ log[i].value = "Ok"}

\* The step is a call of transfer.
TransferCalled ==
    /\ log' # log
    /\ log'[Len(log')].op = "transfer"

\* C23: transfer(amount) succeeds exactly when balance >= amount; on
\* success the balance goes down by amount and the nonce up by one, on
\* failure it returns an error and balance and nonce stay; so after any
\* sequence of transfer and credit calls the balance has not wrapped below
\* zero and the nonce is the number of transfers that succeeded.
C23_TransferChecked ==
    /\ [](account # None
            => /\ account[1].balance \in 0..U64Max
               /\ account[1].nonce = Cardinality(TransfersOk))
    /\ [][TransferCalled
           => LET amount == log'[Len(log')].key
                  ok     == log'[Len(log')].value = "Ok"
              IN  /\ ok <=> account[1].balance >= amount
                  /\ ok => /\ account'[1].balance + amount = account[1].balance
                           /\ account'[1].balance <= account[1].balance
                           /\ account'[1].nonce = account[1].nonce + 1
                  /\ ~ok => account' = account]_vars

\* A transfer has succeeded and a transfer of more than the balance has
\* failed.
C23_Witness ==
    /\ account # None
    /\ account[1].nonce >= 1
    /\ \E i \in 1..Len(log) :
          log[i].op = "transfer" /\ log[i].value = "Err" /\ log[i].key > 0
    /\ \E i \in TransfersOk : log[i].key > 0

----------------------------------------------------------------------------
\* C24: the sibling update(K, V) combines at each level is the digest that
\* occupies that position in the tree before the call: the side nodes on
\* K's path after the call are the side nodes on K's path before it, with
\* the empty digest at the levels where nothing was written.
C24_UpdateKeepsSiblings ==
    [][UpdateReturnedOk
       => generate_proof(smt', log'[Len(log')].key)
              = PaddedProof(generate_proof(smt, log'[Len(log')].key))]_vars

----------------------------------------------------------------------------
----------------------------------------------------------------------------
\* C26: a new root is published only after every node write of its update:
\* while an update is under way the root is the root from before the call,
\* and in every state with a non-empty root the store holds, under the
\* root and under every internal node below it on the path to the leaf
\* updated last, the record of that node's two children.
C26_RootPublishedAfterWrites ==
    /\ \A c \in Callers : pending[c] # None => smt.root = pending[c][1].root0
    /\ (smt.root # zero_value /\ log # <<>> /\ LastCall.op = "update")
       => LET ws == UpdateWrites(LastCall.key, LastCall.value)
          IN  /\ smt.root = ws[Len(ws)].key
              /\ \A i \in 3..Len(ws) :
                    store_get(smt.store, ws[i].key) = Some(ws[i].value)

----------------------------------------------------------------------------
\* C28: whoever reads between the steps of an update(K, V') on a non-empty
\* tree finds, while the root is the root from before the call, that
\* get(K) returns what it returned before the call.
C28_ReaderSeesOldValue ==
    \A c \in Callers :
        (/\ pending[c] # None
         /\ pending[c][1].root0 # zero_value
         /\ smt.root = pending[c][1].root0)
        => get(smt, pending[c][1].key) = pending[c][1].get0

----------------------------------------------------------------------------
\* What a caller can see of a tree: the root and get of every plain key.
Observable(t) == [root |-> t.root, gets |-> [key \in PlainKeys |-> get(t, key)]]

\* The two calls have both returned.
RaceOver == Len(log) = RaceCalls /\ \A c \in Callers : pending[c] = None

\* The state is the one some serial order of the two calls ends in.
AsIfSerial ==
    Observable(smt) \in {Observable(Replay(smt_new, <<log[1], log[2]>>)),
                         Observable(Replay(smt_new, <<log[2], log[1]>>))}

\* The two calls wrote different values for one key, and the call that
\* returned first wrote its flat entry last.
FlatAndRootCrossed ==
    /\ log[1].key = log[2].key
    /\ log[1].value # log[2].value
    /\ get(smt, log[1].key) = Some(log[1].value)

\* C27: update is not safe when two calls run without synchronization:
\* the steps of two calls can interleave so that the final root and flat
\* values are those of neither serial order.  This happens exactly when
\* both calls write one key with different values and the flat entry of
\* one call ends up under the root of the other.
C27_RaceNotSerializable ==
    RaceOver => (AsIfSerial <=> ~FlatAndRootCrossed)

\* Two interleaved calls have ended in a state of neither serial order.
C27_Witness ==
    /\ RaceOver
    /\ FlatAndRootCrossed
    /\ ~AsIfSerial

----------------------------------------------------------------------------
\* The store keys under which the updates made so far wrote a record of
\* two children: the leaf digest and the digest of the node of each level.
NodeRecordKeys ==
    UNION {LET ws == UpdateWrites(log[n].key, log[n].value)
           IN  {ws[i].key : i \in 2..Len(ws)} :
           n \in {m \in 1..Len(log) : log[m].op = "update"}}

\* C29: node records are never changed or deleted: a record stored under
\* a digest is still there, byte for byte, after every later update and
\* remove.
C29_NodeRecordsImmutable ==
    [][\A d \in NodeRecordKeys \cap DOMAIN smt.store :
          /\ d \in DOMAIN smt'.store
          /\ smt'.store[d] = smt.store[d]]_vars

----------------------------------------------------------------------------
\* C30: every record of two children that update writes is stored under
\* the digest of its content: the entry under a record key d holds
\* left followed by right with d = digest_node(left, right).
C30_RecordsContentAddressed ==
    \A d \in NodeRecordKeys \cap DOMAIN smt.store :
        LET parts == split_at(smt.store[d], ByteLen(smt.store[d]) \div 2)
        IN  d = digest_node(parts[1], parts[2])

----------------------------------------------------------------------------
\* The store keys holding an internal node: an entry whose two halves
\* hash, with digest_node, to the key it is stored under.
StoredInternalNodes(t) ==
    {d \in DOMAIN t.store :
        LET parts == split_at(t.store[d], ByteLen(t.store[d]) \div 2)
        IN  d = digest_node(parts[1], parts[2])}

\* The two child digests of the internal node stored under d.
ChildDigests(t, d) ==
    LET parts == split_at(t.store[d], ByteLen(t.store[d]) \div 2)
    IN  {parts[1], parts[2]}

\* C31: in every reachable state, each of the two child digests of every
\* stored internal node is either the empty-subtree digest or a digest
\* under which something is stored.
C31_ChildrenStoredOrEmpty ==
    \A d \in StoredInternalNodes(smt) :
        \A child \in ChildDigests(smt, d) :
            child = zero_hash \/ child \in DOMAIN smt.store

----------------------------------------------------------------------------
\* The store keys under which the updates made so far wrote a raw value.
HashKeyFlatKeys == {log[n].key : n \in 1..Len(log)}

\* The store keys under which the updates made so far wrote a node.
HashKeyNodeKeys ==
    UNION {LET ws == tree_sparse_merkle_UpdateWrites(log[n].key, log[n].value)
           IN  {ws[i].key : i \in 2..Len(ws)} :
           n \in 1..Len(log)}

\* C32: flat key-to-value entries and node records never share a store
\* key, also when a key is the digest of a node: no update writes a raw
\* value under a key that holds a node record and no node write replaces
\* a raw value, so get(K) returns Some of the value of K's latest update
\* after any later updates of other keys.
C32_FlatAndNodeKeysApart ==
    /\ HashKeyFlatKeys \cap HashKeyNodeKeys = {}
    /\ \A key \in HashKeyInputs :
          Written(key) => tree_sparse_merkle_get(smt, key) = Some(LatestValue(key))

----------------------------------------------------------------------------
\* C33: generate_proof returns at most Depth side nodes: it stops at the
\* first level at which current is the empty digest, so the side nodes are
\* as many as the non-empty digests it met before; it returns no side node
\* on an empty tree and exactly Depth side nodes for the key of the update
\* made last.
C33_ProofStopsAtEmpty ==
    /\ \A key \in Keys :
          LET side_nodes == generate_proof(smt, key)
              currents   == ProofCurrents(smt, digest(key), smt.root, 0)
              n          == Len(side_nodes)
          IN  /\ n <= Depth
              /\ \A j \in 1..n : currents[j] # zero_value
              /\ n < Depth => (Len(currents) = n + 1 /\ currents[n + 1] = zero_value)
              /\ smt.root = zero_value => n = 0
    /\ (log # <<>> /\ LastCall.op = "update")
          => Len(generate_proof(smt, LastCall.key)) = Depth

\* After an update, the proof of the updated key has Depth side nodes and
\* the proof of another key stops early, with some but fewer side nodes.
C33_Witness ==
    /\ log # <<>>
    /\ LastCall.op = "update"
    /\ Len(generate_proof(smt, LastCall.key)) = Depth
    /\ \E key \in Keys :
          /\ Len(generate_proof(smt, key)) > 1
          /\ Len(generate_proof(smt, key)) < Depth

----------------------------------------------------------------------------
\* The k binary digits of n, the most significant first.
RECURSIVE BinaryDigits(_, _)
BinaryDigits(n, k) ==
    IF k = 0 THEN <<>> ELSE BinaryDigits(n \div 2, k - 1) \o <<n % 2>>

\* The bits of a byte string: byte 0 before byte 1, and within a byte the
\* most significant bit first.
RECURSIVE MsbFirstBits(_)
MsbFirstBits(bytes) ==
    IF bytes = <<>> THEN <<>>
    ELSE BinaryDigits(Head(bytes), 8) \o MsbFirstBits(Tail(bytes))

\* The digests of the path of key from level i down to the leaf (level
\* Depth), when bit 0 of the most-significant-first bits puts the path
\* digest on the left and bit 1 on the right, next to the empty digest.
RECURSIVE ExpectedPath(_, _, _, _)
ExpectedPath(bits, path, value, i) ==
    IF i = Depth THEN <<digest_leaf(path, value)>>
    ELSE LET below == ExpectedPath(bits, path, value, i + 1)
             child == below[1]
         IN  <<IF bits[i + 1] = 0 THEN digest_node(child, zero_value)
               ELSE digest_node(zero_value, child)>> \o below

\* update, generate_proof and verify agree with ExpectedPath on the path
\* of key: the root and the record of every level, the digest the proof
\* walk holds at every level and the side node it takes there, and the
\* digest verify folds the side nodes into.
PairedByMsbFirstBit(t, key, value) ==
    LET path       == digest(key)
        bits       == MsbFirstBits(PathBytes(path))
        nodes      == ExpectedPath(bits, path, value, 0)
        side_nodes == generate_proof(t, key)
        currents   == ProofCurrents(t, path, t.root, 0)
    IN  /\ t.root = nodes[1]
        /\ Len(side_nodes) = Depth
        /\ \A i \in 0..(Depth - 1) :
              LET node  == nodes[i + 1]
                  child == nodes[i + 2]
              IN  /\ store_get(t.store, node)
                        = Some(IF bits[i + 1] = 0 THEN child \o zero_value
                               ELSE zero_value \o child)
                  /\ currents[i + 1] = node
                  /\ side_nodes[i + 1] = zero_value
        /\ verify(side_nodes, nodes[1], key, value)

\* C34: the bit controlling tree level i (0 nearest the root) is bit
\* 7 - i mod 8 of byte i div 8 of the key path, that is the i-th of the
\* path's bits taken byte 0 first and most significant bit first; update,
\* proof generation and verification pair level i and side node i with
\* this bit, bit 0 placing the path digest on the left and bit 1 on the
\* right.
C34_LevelBitMsbFirst ==
    /\ \A n \in 1..Len(log) :
          log[n].op = "bit"
          => log[n].value = MsbFirstBits(log[n].key[1])[log[n].key[2] + 1]
    /\ (log # <<>> /\ LastCall.op = "update")
          => PairedByMsbFirstBit(smt, LastCall.key, LastCall.value)

\* After an update that built the path of its key, a set bit was read in
\* the second byte of a path whose two bytes differ.
C34_Witness ==
    /\ Len(log) = 2
    /\ log[1].op = "update"
    /\ PairedByMsbFirstBit(smt, log[1].key, log[1].value)
    /\ PathBytes(digest(log[1].key))[1] # 129
    /\ log[2].op = "bit"
    /\ log[2].key[1][1] # log[2].key[1][2]
    /\ log[2].key[2] >= 8
    /\ log[2].value = 1

----------------------------------------------------------------------------
\* b is a with exactly one side node replaced by a different digest.
OneReplaced(a, b) ==
    /\ Len(a) = Len(b)
    /\ Cardinality({i \in 1..Len(a) : a[i] # b[i]}) = 1

\* b is a with side nodes dropped from its end or from its start.
SomeDropped(a, b) ==
    /\ Len(b) < Len(a)
    /\ \/ b = SubSeq(a, 1, Len(b))
       \/ b = SubSeq(a, Len(a) - Len(b) + 1, Len(a))

\* C35: a proof is valid only with its exact content and length: when
\* verify returned true for a proof with (key, value, root), it returns
\* false for the same (key, value, root) with the proof in which one side
\* node is replaced by a different digest, and with the proof from which
\* side nodes are dropped at either end.
C35_TamperedProofRejected ==
    \A m, n \in 1..Len(log) :
        (/\ log[m].op = "verify" /\ log[n].op = "verify"
         /\ log[m].value
         /\ log[n].key[2] = log[m].key[2]
         /\ log[n].key[3] = log[m].key[3]
         /\ log[n].key[4] = log[m].key[4]
         /\ \/ OneReplaced(log[m].key[1], log[n].key[1])
            \/ SomeDropped(log[m].key[1], log[n].key[1]))
        => ~log[n].value

\* verify returned true for a proof of Depth side nodes with a stray
\* digest in it, and was then called with that side node replaced.
C35_Witness ==
    /\ Len(log) = 2
    /\ log[1].value
    /\ Len(log[1].key[1]) = Depth
    /\ StrayDigest \in {log[1].key[1][i] : i \in 1..Depth}
    /\ OneReplaced(log[1].key[1], log[2].key[1])
    /\ StrayDigest \notin {log[2].key[1][i] : i \in 1..Depth}

----------------------------------------------------------------------------
\* C36: digest_leaf hashes distinct byte strings for distinct
\* (path, value) pairs and digest_node hashes distinct byte strings for
\* distinct (left, right) pairs, whatever the lengths of the inputs.
C36_HashedBytesInjective ==
    \A i, j \in 1..Len(log) :
        (/\ log[i].op \in {"digest_leaf", "digest_node"}
         /\ log[i].op = log[j].op
         /\ log[i].key # log[j].key)
        => PreimageOf(log[i].value) # PreimageOf(log[j].value)
====
